---------------------------- MODULE Spec2Model ----------------------------
(***************************************************************************)
(* Model of module.py: NonCausalConv1d, CausalConv1d and Highway.          *)
(*                                                                         *)
(* A tensor is a view (storage, offset, shape, stride) onto a flat storage *)
(* held in a heap, so that slicing, .contiguous() and aliasing are what    *)
(* they are in the tensor library.  Indices are 0-based as in the source.  *)
(* Values are integers; sigmoid is a fixed-point table with denominator    *)
(* SigmoidScale, so the Highway output is in units of 1/SigmoidScale.      *)
(***************************************************************************)
EXTENDS Integers, Sequences, FiniteSets, TLC

VARIABLES
    layer,     \* the constructed module (its configuration and parameters)
    heap,      \* the storages alive during the last forward call
    x,         \* the input tensor of the last forward call
    convx,     \* what self.conv(x) returned inside the convolution module
    Hout,      \* Highway.forward's Hout
    out,       \* what the last forward call returned or raised
    again      \* a second forward call on the same module

vars == <<layer, heap, x, convx, Hout, out, again>>

---------------------------------------------------------------------------
(* Bounds of the model *)

MaxChannels == 2
MaxKernel == 3
MaxDilation == 2
MaxBatch == 2
MaxLen == 3

\* seeds of the pseudo-random parameter initialisation and of the inputs
WeightSeeds == {0, 1}
InputSeeds == {0, 1}

---------------------------------------------------------------------------
(* Tensors: views onto flat storages *)

\* The(S) is the element of the singleton S.  The({e(v) : v \in {d}}) is
\* LET v == d IN e(v) with d evaluated once, before e.
The(S) == CHOOSE v \in S : TRUE

NoTensor == [storage |-> 0, offset |-> 0, shape |-> <<0, 0, 0>>, stride |-> <<0, 0, 0>>]

Numel(shape) == shape[1] * shape[2] * shape[3]

ContiguousStride(shape) == <<shape[2] * shape[3], shape[3], 1>>

\* element [b, c, l] of tensor t (0-based indices)
At(h, t, b, c, l) ==
    h[t.storage][t.offset + b * t.stride[1] + c * t.stride[2] + l * t.stride[3] + 1]

\* the indices <<b, c, l>> of a tensor of the given shape
Indices(shape) == (0..(shape[1] - 1)) \X (0..(shape[2] - 1)) \X (0..(shape[3] - 1))

\* a freshly allocated contiguous tensor of the given shape holding f[<<b, c, l>>]
Alloc(h, shape, f) ==
    LET data == [n \in 1..Numel(shape) |->
                    f[<<(n - 1) \div (shape[2] * shape[3]),
                        ((n - 1) \div shape[3]) % shape[2],
                        (n - 1) % shape[3]>>]]
    IN [heap |-> Append(h, SubSeq(data, 1, Numel(shape))),
        tensor |-> [storage |-> Len(h) + 1, offset |-> 0,
                    shape |-> shape, stride |-> ContiguousStride(shape)]]

\* is_contiguous(): dimensions of size 1 are skipped
IsContiguous(t) ==
    LET e3 == 1
        ok3 == t.shape[3] = 1 \/ t.stride[3] = e3
        e2 == e3 * t.shape[3]
        ok2 == t.shape[2] = 1 \/ t.stride[2] = e2
        e1 == e2 * t.shape[2]
        ok1 == t.shape[1] = 1 \/ t.stride[1] = e1
    IN ok3 /\ ok2 /\ ok1

\* t.contiguous(): t itself when already contiguous, else a fresh copy
Contiguous(h, t) ==
    IF IsContiguous(t)
    THEN [heap |-> h, tensor |-> t]
    ELSE Alloc(h, t.shape, [i \in Indices(t.shape) |-> At(h, t, i[1], i[2], i[3])])

\* t[:, :, n:]
DropLeading(t, n) ==
    [t EXCEPT !.offset = t.offset + n * t.stride[3],
              !.shape = <<t.shape[1], t.shape[2], t.shape[3] - n>>]

\* t[:, :, :-n] for n > 0
DropTrailing(t, n) ==
    [t EXCEPT !.shape = <<t.shape[1], t.shape[2],
                          IF t.shape[3] > n THEN t.shape[3] - n ELSE 0>>]

\* t[:, :n, :]
FirstChannels(t, n) ==
    [t EXCEPT !.shape = <<t.shape[1], IF n < t.shape[2] THEN n ELSE t.shape[2], t.shape[3]>>]

\* t[:, n:, :]
ChannelsFrom(t, n) ==
    LET m == IF n < t.shape[2] THEN n ELSE t.shape[2]
    IN [t EXCEPT !.offset = t.offset + m * t.stride[2],
                 !.shape = <<t.shape[1], t.shape[2] - m, t.shape[3]>>]

---------------------------------------------------------------------------
(* Results of a forward call: a tensor, or the exception and where it rose *)

NoResult == [status |-> "none", at |-> "", tensor |-> NoTensor]
Ok(t) == [status |-> "ok", at |-> "", tensor |-> t]
Raise(where) == [status |-> "error", at |-> where, tensor |-> NoTensor]

RECURSIVE SumUpTo(_, _)
\* f[0] + ... + f[n-1]
SumUpTo(f, n) == IF n = 0 THEN 0 ELSE f[n - 1] + SumUpTo(f, n - 1)

---------------------------------------------------------------------------
(* Parameters and inputs *)

\* nn.Conv1d's parameter initialisation, a pseudo-random draw
WeightInit(seed, o, i, k) == ((seed + o + 2 * i + 3 * k) % 4) - 1
BiasInit(seed, o) == (seed + o) % 2

\* torch.rand, a pseudo-random draw
Rand(seed, b, c, l) == (seed + l * l + 2 * c + 3 * b) % 5

\* nn.Conv1d(in_channels, out_channels, kernel_size, 1, padding, dilation)
Conv1d(in_channels, out_channels, kernel_size, padding, dilation, seed) ==
    [in_channels |-> in_channels, out_channels |-> out_channels,
     kernel_size |-> kernel_size, stride |-> 1, padding |-> padding,
     dilation |-> dilation,
     weight |-> [o \in 0..(out_channels - 1) |-> [i \in 0..(in_channels - 1) |->
                   [k \in 0..(kernel_size - 1) |-> WeightInit(seed, o, i, k)]]],
     bias |-> [o \in 0..(out_channels - 1) |-> BiasInit(seed, o)]]

\* mutant: an input with surplus channels is accepted, the surplus ignored
ChannelsAcceptedLoose(conv, t) == t.shape[2] >= conv.in_channels

\* the convolution accepts an input only with the configured channel count
ChannelsAccepted(conv, t) == t.shape[2] = conv.in_channels

\* length of a unit-stride convolution's output
ConvOutLen(conv, L) == L + 2 * conv.padding - conv.dilation * (conv.kernel_size - 1)

\* input element [b, i, j], zero outside 0..L-1 (the zero padding)
Padded(h, t, b, i, j) ==
    IF j >= 0 /\ j < t.shape[3] THEN At(h, t, b, i, j) ELSE 0

\* mutant: the kernel is applied flipped (a convolution, not a correlation)
ConvAtFlipped(conv, h, t, b, o, j) ==
    conv.bias[o] +
    SumUpTo([i \in 0..(conv.in_channels - 1) |->
               SumUpTo([k \in 0..(conv.kernel_size - 1) |->
                          conv.weight[o][i][conv.kernel_size - 1 - k] *
                          Padded(h, t, b, i, j + k * conv.dilation - conv.padding)],
                       conv.kernel_size)],
            conv.in_channels)

\* one output element of the dilated cross-correlation
ConvAt(conv, h, t, b, o, j) ==
    conv.bias[o] +
    SumUpTo([i \in 0..(conv.in_channels - 1) |->
               SumUpTo([k \in 0..(conv.kernel_size - 1) |->
                          conv.weight[o][i][k] *
                          Padded(h, t, b, i, j + k * conv.dilation - conv.padding)],
                       conv.kernel_size)],
            conv.in_channels)

\* self.conv(x): raises on a channel mismatch or when the padded input is
\* shorter than the dilated kernel, else allocates the output
Conv1dForward(conv, h, t) ==
    IF ~ChannelsAccepted(conv, t) \/ ConvOutLen(conv, t.shape[3]) <= 0
    THEN [heap |-> h, out |-> Raise("conv")]
    ELSE The({ [heap |-> a.heap, out |-> Ok(a.tensor)] :
               a \in {Alloc(h, <<t.shape[1], conv.out_channels, ConvOutLen(conv, t.shape[3])>>,
                            [i \in Indices(<<t.shape[1], conv.out_channels,
                                             ConvOutLen(conv, t.shape[3])>>) |->
                               ConvAt(conv, h, t, i[1], i[2], i[3])])} })

---------------------------------------------------------------------------
(* NonCausalConv1d *)

\* mutant: the causal module's full padding
NonCausalPaddingFull(kernel_size, dilation) == (kernel_size - 1) * dilation
\* mutant: the division rounds up
NonCausalPaddingCeil(kernel_size, dilation) == ((kernel_size - 1) * dilation + 1) \div 2

NonCausalPadding(kernel_size, dilation) == ((kernel_size - 1) * dilation) \div 2

NonCausalConv1d(in_channels, out_channels, kernel_size, dilation, seed) ==
    [kind |-> "NonCausalConv1d", padding |-> NonCausalPadding(kernel_size, dilation),
     conv |-> Conv1d(in_channels, out_channels, kernel_size,
                     NonCausalPadding(kernel_size, dilation), dilation, seed)]

NonCausalForward(m, h, t) ==
    The({ [heap |-> r.heap, convx |-> r.out.tensor, out |-> r.out] :
          r \in {Conv1dForward(m.conv, h, t)} })

---------------------------------------------------------------------------
(* CausalConv1d *)

\* mutant: the receptive field taken for kernel_size * dilation
CausalPaddingOffByOne(kernel_size, dilation) == kernel_size * dilation

CausalPadding(kernel_size, dilation) == (kernel_size - 1) * dilation

CausalConv1d(in_channels, out_channels, kernel_size, dilation, seed) ==
    [kind |-> "CausalConv1d", padding |-> CausalPadding(kernel_size, dilation),
     conv |-> Conv1d(in_channels, out_channels, kernel_size,
                     CausalPadding(kernel_size, dilation), dilation, seed)]

\* mutant: the leading positions are dropped, x[:,:,self.padding:]
TrimLeading(t, padding) == DropLeading(t, padding)

\* x[:,:,:-self.padding]
Trim(t, padding) == DropTrailing(t, padding)

CausalForward(m, h, t) ==
    The({ IF r.out.status # "ok"
          THEN [heap |-> r.heap, convx |-> NoTensor, out |-> r.out]
          ELSE IF m.padding > 0
               THEN The({ [heap |-> c.heap, convx |-> r.out.tensor, out |-> Ok(c.tensor)] :
                          c \in {Contiguous(r.heap, Trim(r.out.tensor, m.padding))} })
               ELSE [heap |-> r.heap, convx |-> r.out.tensor, out |-> r.out] :
          r \in {Conv1dForward(m.conv, h, t)} })

---------------------------------------------------------------------------
(* Highway *)

SigmoidScale == 100

\* F.sigmoid in units of 1/SigmoidScale; it saturates as floating point does
Sigmoid(z) ==
    CASE z <= -3 -> 5
      [] z = -2 -> 12
      [] z = -1 -> 27
      [] z = 0 -> 50
      [] z = 1 -> 73
      [] z = 2 -> 88
      [] OTHER -> 95

Highway(hidden, kernel_size, dilation, causal, seed) ==
    [kind |-> "Highway", d |-> hidden,
     conv |-> IF causal
              THEN CausalConv1d(hidden, 2 * hidden, kernel_size, dilation, seed)
              ELSE NonCausalConv1d(hidden, 2 * hidden, kernel_size, dilation, seed)]

\* broadcasting of element-wise operations
Broadcastable(s1, s2) ==
    \A n \in 1..3 : s1[n] = s2[n] \/ s1[n] = 1 \/ s2[n] = 1
BroadcastShape(s1, s2) == [n \in 1..3 |-> IF s1[n] = 1 THEN s2[n] ELSE s1[n]]
BAt(h, t, b, c, l) ==
    At(h, t, IF t.shape[1] = 1 THEN 0 ELSE b,
             IF t.shape[2] = 1 THEN 0 ELSE c,
             IF t.shape[3] = 1 THEN 0 ELSE l)

\* H1 = Hout[:,:self.d,:]
GateHalf(t, d) == FirstChannels(t, d)
\* H2 = Hout[:,self.d:,:]
TransformHalf(t, d) == ChannelsFrom(t, d)

ConvModuleForward(m, h, t) ==
    IF m.kind = "CausalConv1d" THEN CausalForward(m, h, t) ELSE NonCausalForward(m, h, t)

\* the element-wise F.sigmoid(H1)*H2 + (1-F.sigmoid(H1))*x, given Hout
HighwayCombine(h, t, Hout_, d) ==
    LET H1 == GateHalf(Hout_, d)
        H2 == TransformHalf(Hout_, d)
        s1 == BroadcastShape(H1.shape, H2.shape)
        s2 == BroadcastShape(H1.shape, t.shape)
    IN IF ~Broadcastable(H1.shape, H2.shape) \/ ~Broadcastable(H1.shape, t.shape)
       THEN [heap |-> h, out |-> Raise("mul")]
       ELSE IF ~Broadcastable(s1, s2)
            THEN [heap |-> h, out |-> Raise("add")]
            ELSE The({ [heap |-> a.heap, out |-> Ok(a.tensor)] :
                       a \in {Alloc(h, BroadcastShape(s1, s2),
                                    [i \in Indices(BroadcastShape(s1, s2)) |->
                                       Sigmoid(BAt(h, H1, i[1], i[2], i[3]))
                                         * BAt(h, H2, i[1], i[2], i[3])
                                       + (SigmoidScale - Sigmoid(BAt(h, H1, i[1], i[2], i[3])))
                                         * BAt(h, t, i[1], i[2], i[3])])} })

HighwayForward(m, h, t) ==
    The({ IF r.out.status # "ok"
          THEN [heap |-> r.heap, convx |-> r.convx, Hout |-> NoTensor, out |-> r.out]
          ELSE The({ [heap |-> c.heap, convx |-> r.convx, Hout |-> r.out.tensor,
                      out |-> c.out] :
                     c \in {HighwayCombine(r.heap, t, r.out.tensor, m.d)} }) :
          r \in {ConvModuleForward(m.conv, h, t)} })

---------------------------------------------------------------------------
(* The state machine: construct one module, then call it *)

NoLayer == [kind |-> "none"]
NoCall == [heap |-> <<>>, x |-> NoTensor, out |-> NoResult]

Channels == 1..MaxChannels
Kernels == 1..MaxKernel
Dilations == 1..MaxDilation

\* torch.rand(B, C, L)
RandTensor(seed, B, C, L) ==
    Alloc(<<>>, <<B, C, L>>, [i \in Indices(<<B, C, L>>) |-> Rand(seed, i[1], i[2], i[3])])

\* a tensor equal to t at sequence positions <= cut, redrawn after them
RedrawnAfter(h, t, cut, seed) ==
    Alloc(<<>>, t.shape,
          [i \in Indices(t.shape) |->
             IF i[3] <= cut THEN At(h, t, i[1], i[2], i[3]) ELSE Rand(seed, i[1], i[2], i[3])])

Forward(m, h, t) ==
    CASE m.kind = "NonCausalConv1d" ->
            The({ [heap |-> r.heap, convx |-> r.convx, Hout |-> NoTensor, out |-> r.out] :
                  r \in {NonCausalForward(m, h, t)} })
      [] m.kind = "CausalConv1d" ->
            The({ [heap |-> r.heap, convx |-> r.convx, Hout |-> NoTensor, out |-> r.out] :
                  r \in {CausalForward(m, h, t)} })
      [] m.kind = "Highway" -> HighwayForward(m, h, t)

Init ==
    /\ layer = NoLayer
    /\ heap = <<>>
    /\ x = NoTensor
    /\ convx = NoTensor
    /\ Hout = NoTensor
    /\ out = NoResult
    /\ again = NoCall

ConstructNonCausal ==
    /\ layer.kind = "none"
    /\ \E i \in Channels, o \in Channels, k \in Kernels, d \in Dilations, s \in WeightSeeds :
          layer' = NonCausalConv1d(i, o, k, d, s)
    /\ UNCHANGED <<heap, x, convx, Hout, out, again>>

ConstructCausal ==
    /\ layer.kind = "none"
    /\ \E i \in Channels, o \in Channels, k \in Kernels, d \in Dilations, s \in WeightSeeds :
          layer' = CausalConv1d(i, o, k, d, s)
    /\ UNCHANGED <<heap, x, convx, Hout, out, again>>

ConstructHighway ==
    /\ layer.kind = "none"
    /\ \E hid \in Channels, k \in Kernels, d \in Dilations, c \in BOOLEAN, s \in WeightSeeds :
          layer' = Highway(hid, k, d, c, s)
    /\ UNCHANGED <<heap, x, convx, Hout, out, again>>

\* module(x) on a fresh random input
Call ==
    /\ layer.kind # "none"
    /\ out.status = "none"
    /\ \E B \in 1..MaxBatch, C \in Channels, L \in 1..MaxLen, s \in InputSeeds :
          \E a \in {RandTensor(s, B, C, L)} :
             \E r \in {Forward(layer, a.heap, a.tensor)} :
                /\ x' = a.tensor
                /\ heap' = r.heap
                /\ convx' = r.convx
                /\ Hout' = r.Hout
                /\ out' = r.out
    /\ again' = NoCall
    /\ UNCHANGED layer

\* after module(x) returned: module(x2) with the same parameters, x2 agreeing
\* with x up to position cut and redrawn at the later positions
CallAgain ==
    /\ layer.kind # "none"
    /\ out.status = "ok"
    /\ again = NoCall
    /\ \E cut \in -1..(x.shape[3] - 2), s \in InputSeeds :
          \E a \in {RedrawnAfter(heap, x, cut, s)} :
             \E r \in {Forward(layer, a.heap, a.tensor)} :
                again' = [heap |-> r.heap, x |-> a.tensor, out |-> r.out]
    /\ UNCHANGED <<layer, heap, x, convx, Hout, out>>

Next ==
    \/ ConstructNonCausal
    \/ ConstructCausal
    \/ ConstructHighway
    \/ Call
    \/ CallAgain

Spec == Init /\ [][Next]_vars

---------------------------------------------------------------------------
(* Vocabulary of the properties *)

Called == out.status # "none"
\* the nn.Conv1d at the bottom of the constructed module
InnerConv == IF layer.kind = "Highway" THEN layer.conv.conv ELSE layer.conv
\* (kernel_size - 1) * dilation of the constructed module
Reach == (InnerConv.kernel_size - 1) * InnerConv.dilation
\* the input has the channel count the module was configured with
ChannelsMatch == x.shape[2] = InnerConv.in_channels
Batch == x.shape[1]
SeqLen == x.shape[3]
Returned == out.status = "ok"
Result == out.tensor

\* input element [b, i, j] of the last call, zero before position 0
LeftPadded(b, i, j) == IF j < 0 THEN 0 ELSE At(heap, x, b, i, j)

\* bias + sum over taps k of w[k] * x[t - (K-1-k)*D], x zero-padded on the left only
LeftPaddedConv(b, o, t) ==
    InnerConv.bias[o] +
    SumUpTo([i \in 0..(InnerConv.in_channels - 1) |->
               SumUpTo([k \in 0..(InnerConv.kernel_size - 1) |->
                          InnerConv.weight[o][i][k] *
                          LeftPadded(b, i, t - (InnerConv.kernel_size - 1 - k) * InnerConv.dilation)],
                       InnerConv.kernel_size)],
            InnerConv.in_channels)

\* the two calls' inputs agree at every position <= t
AgreeUpTo(t) ==
    \A b \in 0..(Batch - 1), c \in 0..(x.shape[2] - 1), l \in 0..t :
        At(heap, x, b, c, l) = At(again.heap, again.x, b, c, l)

\* the two calls' outputs are the same at position t
SameOutputAt(t) ==
    \A b \in 0..(Batch - 1), o \in 0..(Result.shape[2] - 1) :
        At(heap, Result, b, o, t) = At(again.heap, again.out.tensor, b, o, t)

---------------------------------------------------------------------------
(* Properties *)

\* C1: CausalConv1d.forward on an input (batch, in_channels, L), L >= 1, returns
\* a tensor of sequence length exactly L with out_channels channels, for every
\* kernel_size and dilation, whatever the parity of (K-1)*D, (K-1)*D = 0 included.
C1_CausalKeepsLength ==
    (layer.kind = "CausalConv1d" /\ Called /\ ChannelsMatch) =>
        /\ Returned
        /\ Result.shape[3] = SeqLen
        /\ Result.shape[2] = layer.conv.out_channels
        /\ Reach = 0 => Result = convx

C1_Witness ==
    /\ layer.kind = "CausalConv1d" /\ Called /\ ChannelsMatch
    /\ Reach = 1 /\ SeqLen = 3
    /\ Returned /\ Result.shape[3] = 3 /\ convx.shape[3] = 4

\* C2: causality of CausalConv1d.forward: two inputs of the same shape that agree
\* on all positions <= t give, with the same parameters, outputs identical at t.
C2_Causality ==
    (layer.kind = "CausalConv1d" /\ Returned /\ again.out.status = "ok") =>
        /\ again.x.shape = x.shape
        /\ \A t \in 0..(SeqLen - 1) : AgreeUpTo(t) => SameOutputAt(t)

C2_Witness ==
    /\ layer.kind = "CausalConv1d" /\ Returned /\ again.out.status = "ok"
    /\ Reach > 0 /\ SeqLen = 3 /\ layer.conv.in_channels = 2
    /\ AgreeUpTo(1) /\ ~AgreeUpTo(2)
    /\ SameOutputAt(0) /\ SameOutputAt(1) /\ ~SameOutputAt(2)

\* C3: when (K-1)*D is even, NonCausalConv1d.forward returns a tensor of the
\* input's sequence length with out_channels channels.
C3_NonCausalKeepsLengthWhenEven ==
    (layer.kind = "NonCausalConv1d" /\ Called /\ ChannelsMatch /\ Reach % 2 = 0) =>
        /\ Returned
        /\ Result.shape[3] = SeqLen
        /\ Result.shape[2] = layer.conv.out_channels

C3_Witness ==
    /\ layer.kind = "NonCausalConv1d" /\ Called /\ ChannelsMatch
    /\ Reach = 4 /\ layer.padding = 2 /\ SeqLen = 3
    /\ Returned /\ Result.shape[3] = 3

\* C4: output sequence length equals input sequence length for all three
\* modules, for any input of length >= 1 and any kernel_size >= 1, dilation >= 1.
C4_AllKeepLength ==
    (Called /\ ChannelsMatch) => (Returned /\ Result.shape[3] = SeqLen)

\* C5: Highway.forward returns a tensor of exactly the input's shape, for every
\* hidden size, kernel_size, dilation and either value of causal.
C5_HighwayKeepsShape ==
    (layer.kind = "Highway" /\ Called /\ ChannelsMatch) =>
        (Returned /\ Result.shape = x.shape)

\* C6: Highway.forward's output is, element by element,
\* g*T[b,c,t] + (1-g)*x[b,c,t] with g = sigmoid(G[b,c,t]), G the first H
\* channels of the inner convolution's result and T the last H.
C6_HighwayElementwise ==
    (layer.kind = "Highway" /\ Returned) =>
        /\ Hout.shape = <<Batch, 2 * layer.d, SeqLen>>
        /\ Result.shape = x.shape
        /\ \A b \in 0..(Batch - 1), c \in 0..(layer.d - 1), t \in 0..(SeqLen - 1) :
              At(heap, Result, b, c, t) =
                 Sigmoid(At(heap, Hout, b, c, t)) * At(heap, Hout, b, layer.d + c, t)
                 + (SigmoidScale - Sigmoid(At(heap, Hout, b, c, t))) * At(heap, x, b, c, t)

\* C6 on the configurations whose inner convolution keeps the length
C6_ElementwiseWhenLengthKept ==
    (layer.kind = "Highway" /\ Returned /\ Hout.shape[3] = SeqLen) => C6_HighwayElementwise

\* C7: CausalConv1d.forward, which pads (K-1)*D on both sides and drops the
\* trailing (K-1)*D positions, equals at every position the unit-stride dilated
\* convolution of the input zero-padded by (K-1)*D on the left only.
C7_CausalIsLeftPaddedConv ==
    (layer.kind = "CausalConv1d" /\ Returned) =>
        /\ layer.conv.padding = Reach
        /\ convx.shape[3] = SeqLen + Reach
        /\ Result.shape[3] = convx.shape[3] - Reach
        /\ \A b \in 0..(Batch - 1), o \in 0..(layer.conv.out_channels - 1),
              t \in 0..(SeqLen - 1) :
              At(heap, Result, b, o, t) = LeftPaddedConv(b, o, t)

C7_Witness ==
    /\ layer.kind = "CausalConv1d" /\ Returned
    /\ layer.conv.kernel_size = 3 /\ layer.conv.dilation = 2 /\ SeqLen = 3
    /\ layer.conv.in_channels = 2
    /\ convx.shape[3] = 7
    /\ \E o \in 0..(layer.conv.out_channels - 1) :
          At(heap, Result, 0, o, 2) # At(heap, Result, 0, o, 0)

C9_MismatchRaises ==
    (Called /\ ~ChannelsMatch) =>
        /\ out.status = "error"
        /\ out.at \in {"conv", "add"}

C9_Witness ==
    /\ layer.kind = "Highway" /\ layer.d = 2 /\ x.shape[2] = 1
    /\ out.status = "error" /\ out.at = "conv"

\* C10: whenever CausalConv1d.forward trims (padding > 0), the tensor it returns
\* never shares storage with the untrimmed convolution output.
C10_TrimIsACopy ==
    (layer.kind = "CausalConv1d" /\ Returned /\ layer.padding > 0) =>
        Result.storage # convx.storage

=============================================================================
